---- MODULE Spec2Model ----
(***************************************************************************)
(* A model of the bitcask log writer of src/src/log.rs: the record codec   *)
(* (Entry), the in-memory Index, and Writer::insert / Writer::get over a   *)
(* byte-level model of the log file.                                       *)
(*                                                                         *)
(* The file is a sequence of bytes (0..255) with a position.  Fixed-width  *)
(* integers are encoded little-endian with the widths of the source:       *)
(* checksum 8, active 1, timestamp 16, key_size 8, value_size 8.           *)
(***************************************************************************)
EXTENDS Integers, Sequences, FiniteSets, TLC

\* ---------------------------------------------------------------- bounds

\* Number of Writer::insert calls explored in one behaviour.
MaxOps == 3

\* Largest reading of the clock (util::get_micros_since_epoch).
MaxClock == 1

\* Number of Writer::insert calls explored when I/O calls may fail.
MaxIoOps == 2

\* Largest vector length Entry::from_reader allocates in the model; a decoded
\* key_size or value_size beyond it is reported as the outcome "Oversize".
MaxVec == 6

\* ------------------------------------------------------- program constants

\* Widths in bytes of the fixed-width fields, as written by Entry::as_bytes.
ChecksumWidth == 8
ActiveWidth == 1
TimestampWidth == 16
SizeWidth == 8

\* The scratch buffer of Entry::from_reader.
BufLen == 16

HeaderLen == ChecksumWidth + ActiveWidth + TimestampWidth + SizeWidth + SizeWidth

\* ------------------------------------------------------------------ bytes

Byte == 0..255

\* A function with domain 1..n as an explicit tuple.
AsSeq(s) == SubSeq(s, 1, Len(s))

Zeros(n) == AsSeq([i \in 1..n |-> 0])

\* Byte i (1 the least significant) of the number n, n below 2^31.
LeByte(n, i) ==
    IF i = 1 THEN n % 256
    ELSE IF i = 2 THEN (n \div 256) % 256
    ELSE IF i = 3 THEN (n \div 65536) % 256
    ELSE IF i = 4 THEN (n \div 16777216) % 256
    ELSE 0

\* A faulty to_le_bytes: the bytes most significant first.
ToBeBytes(n, w) == AsSeq([i \in 1..w |-> LeByte(n, w + 1 - i)])

\* n.to_le_bytes() for an unsigned integer of w bytes.
ToLeBytes(n, w) == AsSeq([i \in 1..w |-> LeByte(n, i)])

\* Whether the little-endian bytes b denote a number below 2^24 (the range the
\* model represents as an integer).
Representable(b) == \A i \in 4..Len(b) : b[i] = 0

\* uN::from_le_bytes(b) for representable b.
FromLeBytes(b) ==
    (IF Len(b) >= 1 THEN b[1] ELSE 0)
    + 256 * (IF Len(b) >= 2 THEN b[2] ELSE 0)
    + 65536 * (IF Len(b) >= 3 THEN b[3] ELSE 0)

Reverse(s) == AsSeq([i \in 1..Len(s) |-> s[Len(s) + 1 - i]])

\* ------------------------------------------------------------------ CRC-64

\* Bit k (0 the least significant) of the byte a.
Bit(a, k) == (a \div (2 ^ k)) % 2

\* The exclusive or of the bits k of a and b, in place.
XorBit(a, b, k) == ((Bit(a, k) + Bit(b, k)) % 2) * (2 ^ k)

XorBits(a, b) ==
    XorBit(a, b, 0) + XorBit(a, b, 1) + XorBit(a, b, 2) + XorBit(a, b, 3)
    + XorBit(a, b, 4) + XorBit(a, b, 5) + XorBit(a, b, 6) + XorBit(a, b, 7)

\* Bitwise exclusive or of two bytes, tabulated (entry [a + 1][b + 1]).
XorTable == AsSeq([a \in 1..256 |-> AsSeq([b \in 1..256 |-> XorBits(a - 1, b - 1)])])

XorByte(a, b) == XorTable[a + 1][b + 1]

\* A 64-bit register is a sequence of 8 bytes, most significant first.
Xor64(x, y) ==
    <<XorByte(x[1], y[1]), XorByte(x[2], y[2]), XorByte(x[3], y[3]), XorByte(x[4], y[4]),
      XorByte(x[5], y[5]), XorByte(x[6], y[6]), XorByte(x[7], y[7]), XorByte(x[8], y[8])>>

Shl8(x) == <<x[2], x[3], x[4], x[5], x[6], x[7], x[8], 0>>

\* The byte-wise table of CRC_64_ECMA_182 (polynomial 0x42F0E1EBA9EA3693, init 0, not
\* reflected, xorout 0): entry b + 1 is the register after byte b, most
\* significant byte first.
CrcTable == <<
    <<0, 0, 0, 0, 0, 0, 0, 0>>,  <<66, 240, 225, 235, 169, 234, 54, 147>>,
    <<133, 225, 195, 215, 83, 212, 109, 38>>,  <<199, 17, 34, 60, 250, 62, 91, 181>>,
    <<73, 51, 102, 69, 14, 66, 236, 223>>,  <<11, 195, 135, 174, 167, 168, 218, 76>>,
    <<204, 210, 165, 146, 93, 150, 129, 249>>,  <<142, 34, 68, 121, 244, 124, 183, 106>>,
    <<146, 102, 204, 138, 28, 133, 217, 190>>,  <<208, 150, 45, 97, 181, 111, 239, 45>>,
    <<23, 135, 15, 93, 79, 81, 180, 152>>,  <<85, 119, 238, 182, 230, 187, 130, 11>>,
    <<219, 85, 170, 207, 18, 199, 53, 97>>,  <<153, 165, 75, 36, 187, 45, 3, 242>>,
    <<94, 180, 105, 24, 65, 19, 88, 71>>,  <<28, 68, 136, 243, 232, 249, 110, 212>>,
    <<102, 61, 120, 255, 144, 225, 133, 239>>,  <<36, 205, 153, 20, 57, 11, 179, 124>>,
    <<227, 220, 187, 40, 195, 53, 232, 201>>,  <<161, 44, 90, 195, 106, 223, 222, 90>>,
    <<47, 14, 30, 186, 158, 163, 105, 48>>,  <<109, 254, 255, 81, 55, 73, 95, 163>>,
    <<170, 239, 221, 109, 205, 119, 4, 22>>,  <<232, 31, 60, 134, 100, 157, 50, 133>>,
    <<244, 91, 180, 117, 140, 100, 92, 81>>,  <<182, 171, 85, 158, 37, 142, 106, 194>>,
    <<113, 186, 119, 162, 223, 176, 49, 119>>,  <<51, 74, 150, 73, 118, 90, 7, 228>>,
    <<189, 104, 210, 48, 130, 38, 176, 142>>,  <<255, 152, 51, 219, 43, 204, 134, 29>>,
    <<56, 137, 17, 231, 209, 242, 221, 168>>,  <<122, 121, 240, 12, 120, 24, 235, 59>>,
    <<204, 122, 241, 255, 33, 195, 11, 222>>,  <<142, 138, 16, 20, 136, 41, 61, 77>>,
    <<73, 155, 50, 40, 114, 23, 102, 248>>,  <<11, 107, 211, 195, 219, 253, 80, 107>>,
    <<133, 73, 151, 186, 47, 129, 231, 1>>,  <<199, 185, 118, 81, 134, 107, 209, 146>>,
    <<0, 168, 84, 109, 124, 85, 138, 39>>,  <<66, 88, 181, 134, 213, 191, 188, 180>>,
    <<94, 28, 61, 117, 61, 70, 210, 96>>,  <<28, 236, 220, 158, 148, 172, 228, 243>>,
    <<219, 253, 254, 162, 110, 146, 191, 70>>,  <<153, 13, 31, 73, 199, 120, 137, 213>>,
    <<23, 47, 91, 48, 51, 4, 62, 191>>,  <<85, 223, 186, 219, 154, 238, 8, 44>>,
    <<146, 206, 152, 231, 96, 208, 83, 153>>,  <<208, 62, 121, 12, 201, 58, 101, 10>>,
    <<170, 71, 137, 0, 177, 34, 142, 49>>,  <<232, 183, 104, 235, 24, 200, 184, 162>>,
    <<47, 166, 74, 215, 226, 246, 227, 23>>,  <<109, 86, 171, 60, 75, 28, 213, 132>>,
    <<227, 116, 239, 69, 191, 96, 98, 238>>,  <<161, 132, 14, 174, 22, 138, 84, 125>>,
    <<102, 149, 44, 146, 236, 180, 15, 200>>,  <<36, 101, 205, 121, 69, 94, 57, 91>>,
    <<56, 33, 69, 138, 173, 167, 87, 143>>,  <<122, 209, 164, 97, 4, 77, 97, 28>>,
    <<189, 192, 134, 93, 254, 115, 58, 169>>,  <<255, 48, 103, 182, 87, 153, 12, 58>>,
    <<113, 18, 35, 207, 163, 229, 187, 80>>,  <<51, 226, 194, 36, 10, 15, 141, 195>>,
    <<244, 243, 224, 24, 240, 49, 214, 118>>,  <<182, 3, 1, 243, 89, 219, 224, 229>>,
    <<218, 5, 2, 21, 234, 108, 33, 47>>,  <<152, 245, 227, 254, 67, 134, 23, 188>>,
    <<95, 228, 193, 194, 185, 184, 76, 9>>,  <<29, 20, 32, 41, 16, 82, 122, 154>>,
    <<147, 54, 100, 80, 228, 46, 205, 240>>,  <<209, 198, 133, 187, 77, 196, 251, 99>>,
    <<22, 215, 167, 135, 183, 250, 160, 214>>,  <<84, 39, 70, 108, 30, 16, 150, 69>>,
    <<72, 99, 206, 159, 246, 233, 248, 145>>,  <<10, 147, 47, 116, 95, 3, 206, 2>>,
    <<205, 130, 13, 72, 165, 61, 149, 183>>,  <<143, 114, 236, 163, 12, 215, 163, 36>>,
    <<1, 80, 168, 218, 248, 171, 20, 78>>,  <<67, 160, 73, 49, 81, 65, 34, 221>>,
    <<132, 177, 107, 13, 171, 127, 121, 104>>,  <<198, 65, 138, 230, 2, 149, 79, 251>>,
    <<188, 56, 122, 234, 122, 141, 164, 192>>,  <<254, 200, 155, 1, 211, 103, 146, 83>>,
    <<57, 217, 185, 61, 41, 89, 201, 230>>,  <<123, 41, 88, 214, 128, 179, 255, 117>>,
    <<245, 11, 28, 175, 116, 207, 72, 31>>,  <<183, 251, 253, 68, 221, 37, 126, 140>>,
    <<112, 234, 223, 120, 39, 27, 37, 57>>,  <<50, 26, 62, 147, 142, 241, 19, 170>>,
    <<46, 94, 182, 96, 102, 8, 125, 126>>,  <<108, 174, 87, 139, 207, 226, 75, 237>>,
    <<171, 191, 117, 183, 53, 220, 16, 88>>,  <<233, 79, 148, 92, 156, 54, 38, 203>>,
    <<103, 109, 208, 37, 104, 74, 145, 161>>,  <<37, 157, 49, 206, 193, 160, 167, 50>>,
    <<226, 140, 19, 242, 59, 158, 252, 135>>,  <<160, 124, 242, 25, 146, 116, 202, 20>>,
    <<22, 127, 243, 234, 203, 175, 42, 241>>,  <<84, 143, 18, 1, 98, 69, 28, 98>>,
    <<147, 158, 48, 61, 152, 123, 71, 215>>,  <<209, 110, 209, 214, 49, 145, 113, 68>>,
    <<95, 76, 149, 175, 197, 237, 198, 46>>,  <<29, 188, 116, 68, 108, 7, 240, 189>>,
    <<218, 173, 86, 120, 150, 57, 171, 8>>,  <<152, 93, 183, 147, 63, 211, 157, 155>>,
    <<132, 25, 63, 96, 215, 42, 243, 79>>,  <<198, 233, 222, 139, 126, 192, 197, 220>>,
    <<1, 248, 252, 183, 132, 254, 158, 105>>,  <<67, 8, 29, 92, 45, 20, 168, 250>>,
    <<205, 42, 89, 37, 217, 104, 31, 144>>,  <<143, 218, 184, 206, 112, 130, 41, 3>>,
    <<72, 203, 154, 242, 138, 188, 114, 182>>,  <<10, 59, 123, 25, 35, 86, 68, 37>>,
    <<112, 66, 139, 21, 91, 78, 175, 30>>,  <<50, 178, 106, 254, 242, 164, 153, 141>>,
    <<245, 163, 72, 194, 8, 154, 194, 56>>,  <<183, 83, 169, 41, 161, 112, 244, 171>>,
    <<57, 113, 237, 80, 85, 12, 67, 193>>,  <<123, 129, 12, 187, 252, 230, 117, 82>>,
    <<188, 144, 46, 135, 6, 216, 46, 231>>,  <<254, 96, 207, 108, 175, 50, 24, 116>>,
    <<226, 36, 71, 159, 71, 203, 118, 160>>,  <<160, 212, 166, 116, 238, 33, 64, 51>>,
    <<103, 197, 132, 72, 20, 31, 27, 134>>,  <<37, 53, 101, 163, 189, 245, 45, 21>>,
    <<171, 23, 33, 218, 73, 137, 154, 127>>,  <<233, 231, 192, 49, 224, 99, 172, 236>>,
    <<46, 246, 226, 13, 26, 93, 247, 89>>,  <<108, 6, 3, 230, 179, 183, 193, 202>>,
    <<246, 250, 229, 192, 125, 50, 116, 205>>,  <<180, 10, 4, 43, 212, 216, 66, 94>>,
    <<115, 27, 38, 23, 46, 230, 25, 235>>,  <<49, 235, 199, 252, 135, 12, 47, 120>>,
    <<191, 201, 131, 133, 115, 112, 152, 18>>,  <<253, 57, 98, 110, 218, 154, 174, 129>>,
    <<58, 40, 64, 82, 32, 164, 245, 52>>,  <<120, 216, 161, 185, 137, 78, 195, 167>>,
    <<100, 156, 41, 74, 97, 183, 173, 115>>,  <<38, 108, 200, 161, 200, 93, 155, 224>>,
    <<225, 125, 234, 157, 50, 99, 192, 85>>,  <<163, 141, 11, 118, 155, 137, 246, 198>>,
    <<45, 175, 79, 15, 111, 245, 65, 172>>,  <<111, 95, 174, 228, 198, 31, 119, 63>>,
    <<168, 78, 140, 216, 60, 33, 44, 138>>,  <<234, 190, 109, 51, 149, 203, 26, 25>>,
    <<144, 199, 157, 63, 237, 211, 241, 34>>,  <<210, 55, 124, 212, 68, 57, 199, 177>>,
    <<21, 38, 94, 232, 190, 7, 156, 4>>,  <<87, 214, 191, 3, 23, 237, 170, 151>>,
    <<217, 244, 251, 122, 227, 145, 29, 253>>,  <<155, 4, 26, 145, 74, 123, 43, 110>>,
    <<92, 21, 56, 173, 176, 69, 112, 219>>,  <<30, 229, 217, 70, 25, 175, 70, 72>>,
    <<2, 161, 81, 181, 241, 86, 40, 156>>,  <<64, 81, 176, 94, 88, 188, 30, 15>>,
    <<135, 64, 146, 98, 162, 130, 69, 186>>,  <<197, 176, 115, 137, 11, 104, 115, 41>>,
    <<75, 146, 55, 240, 255, 20, 196, 67>>,  <<9, 98, 214, 27, 86, 254, 242, 208>>,
    <<206, 115, 244, 39, 172, 192, 169, 101>>,  <<140, 131, 21, 204, 5, 42, 159, 246>>,
    <<58, 128, 20, 63, 92, 241, 127, 19>>,  <<120, 112, 245, 212, 245, 27, 73, 128>>,
    <<191, 97, 215, 232, 15, 37, 18, 53>>,  <<253, 145, 54, 3, 166, 207, 36, 166>>,
    <<115, 179, 114, 122, 82, 179, 147, 204>>,  <<49, 67, 147, 145, 251, 89, 165, 95>>,
    <<246, 82, 177, 173, 1, 103, 254, 234>>,  <<180, 162, 80, 70, 168, 141, 200, 121>>,
    <<168, 230, 216, 181, 64, 116, 166, 173>>,  <<234, 22, 57, 94, 233, 158, 144, 62>>,
    <<45, 7, 27, 98, 19, 160, 203, 139>>,  <<111, 247, 250, 137, 186, 74, 253, 24>>,
    <<225, 213, 190, 240, 78, 54, 74, 114>>,  <<163, 37, 95, 27, 231, 220, 124, 225>>,
    <<100, 52, 125, 39, 29, 226, 39, 84>>,  <<38, 196, 156, 204, 180, 8, 17, 199>>,
    <<92, 189, 108, 192, 204, 16, 250, 252>>,  <<30, 77, 141, 43, 101, 250, 204, 111>>,
    <<217, 92, 175, 23, 159, 196, 151, 218>>,  <<155, 172, 78, 252, 54, 46, 161, 73>>,
    <<21, 142, 10, 133, 194, 82, 22, 35>>,  <<87, 126, 235, 110, 107, 184, 32, 176>>,
    <<144, 111, 201, 82, 145, 134, 123, 5>>,  <<210, 159, 40, 185, 56, 108, 77, 150>>,
    <<206, 219, 160, 74, 208, 149, 35, 66>>,  <<140, 43, 65, 161, 121, 127, 21, 209>>,
    <<75, 58, 99, 157, 131, 65, 78, 100>>,  <<9, 202, 130, 118, 42, 171, 120, 247>>,
    <<135, 232, 198, 15, 222, 215, 207, 157>>,  <<197, 24, 39, 228, 119, 61, 249, 14>>,
    <<2, 9, 5, 216, 141, 3, 162, 187>>,  <<64, 249, 228, 51, 36, 233, 148, 40>>,
    <<44, 255, 231, 213, 151, 94, 85, 226>>,  <<110, 15, 6, 62, 62, 180, 99, 113>>,
    <<169, 30, 36, 2, 196, 138, 56, 196>>,  <<235, 238, 197, 233, 109, 96, 14, 87>>,
    <<101, 204, 129, 144, 153, 28, 185, 61>>,  <<39, 60, 96, 123, 48, 246, 143, 174>>,
    <<224, 45, 66, 71, 202, 200, 212, 27>>,  <<162, 221, 163, 172, 99, 34, 226, 136>>,
    <<190, 153, 43, 95, 139, 219, 140, 92>>,  <<252, 105, 202, 180, 34, 49, 186, 207>>,
    <<59, 120, 232, 136, 216, 15, 225, 122>>,  <<121, 136, 9, 99, 113, 229, 215, 233>>,
    <<247, 170, 77, 26, 133, 153, 96, 131>>,  <<181, 90, 172, 241, 44, 115, 86, 16>>,
    <<114, 75, 142, 205, 214, 77, 13, 165>>,  <<48, 187, 111, 38, 127, 167, 59, 54>>,
    <<74, 194, 159, 42, 7, 191, 208, 13>>,  <<8, 50, 126, 193, 174, 85, 230, 158>>,
    <<207, 35, 92, 253, 84, 107, 189, 43>>,  <<141, 211, 189, 22, 253, 129, 139, 184>>,
    <<3, 241, 249, 111, 9, 253, 60, 210>>,  <<65, 1, 24, 132, 160, 23, 10, 65>>,
    <<134, 16, 58, 184, 90, 41, 81, 244>>,  <<196, 224, 219, 83, 243, 195, 103, 103>>,
    <<216, 164, 83, 160, 27, 58, 9, 179>>,  <<154, 84, 178, 75, 178, 208, 63, 32>>,
    <<93, 69, 144, 119, 72, 238, 100, 149>>,  <<31, 181, 113, 156, 225, 4, 82, 6>>,
    <<145, 151, 53, 229, 21, 120, 229, 108>>,  <<211, 103, 212, 14, 188, 146, 211, 255>>,
    <<20, 118, 246, 50, 70, 172, 136, 74>>,  <<86, 134, 23, 217, 239, 70, 190, 217>>,
    <<224, 133, 22, 42, 182, 157, 94, 60>>,  <<162, 117, 247, 193, 31, 119, 104, 175>>,
    <<101, 100, 213, 253, 229, 73, 51, 26>>,  <<39, 148, 52, 22, 76, 163, 5, 137>>,
    <<169, 182, 112, 111, 184, 223, 178, 227>>,  <<235, 70, 145, 132, 17, 53, 132, 112>>,
    <<44, 87, 179, 184, 235, 11, 223, 197>>,  <<110, 167, 82, 83, 66, 225, 233, 86>>,
    <<114, 227, 218, 160, 170, 24, 135, 130>>,  <<48, 19, 59, 75, 3, 242, 177, 17>>,
    <<247, 2, 25, 119, 249, 204, 234, 164>>,  <<181, 242, 248, 156, 80, 38, 220, 55>>,
    <<59, 208, 188, 229, 164, 90, 107, 93>>,  <<121, 32, 93, 14, 13, 176, 93, 206>>,
    <<190, 49, 127, 50, 247, 142, 6, 123>>,  <<252, 193, 158, 217, 94, 100, 48, 232>>,
    <<134, 184, 110, 213, 38, 124, 219, 211>>,  <<196, 72, 143, 62, 143, 150, 237, 64>>,
    <<3, 89, 173, 2, 117, 168, 182, 245>>,  <<65, 169, 76, 233, 220, 66, 128, 102>>,
    <<207, 139, 8, 144, 40, 62, 55, 12>>,  <<141, 123, 233, 123, 129, 212, 1, 159>>,
    <<74, 106, 203, 71, 123, 234, 90, 42>>,  <<8, 154, 42, 172, 210, 0, 108, 185>>,
    <<20, 222, 162, 95, 58, 249, 2, 109>>,  <<86, 46, 67, 180, 147, 19, 52, 254>>,
    <<145, 63, 97, 136, 105, 45, 111, 75>>,  <<211, 207, 128, 99, 192, 199, 89, 216>>,
    <<93, 237, 196, 26, 52, 187, 238, 178>>,  <<31, 29, 37, 241, 157, 81, 216, 33>>,
    <<216, 12, 7, 205, 103, 111, 131, 148>>,  <<154, 252, 230, 38, 206, 133, 181, 7>> >>

\* The digest register x after one more byte b.
CrcStep(x, b) == Xor64(CrcTable[XorByte(x[1], b) + 1], Shl8(x))

RECURSIVE CrcUpdate(_, _, _, _)
\* digest.update(bytes) for bytes[lo..hi], in order.  The range is split in
\* halves and the left half's register is computed before the right half is
\* entered, which keeps the evaluation shallow.
CrcUpdate(x, bytes, lo, hi) ==
    IF lo > hi THEN x
    ELSE IF lo = hi THEN CrcStep(x, bytes[lo])
    ELSE LET mid  == (lo + hi) \div 2
             left == CrcUpdate(x, bytes, lo, mid)
         IN  IF Len(left) = 8 THEN CrcUpdate(left, bytes, mid + 1, hi) ELSE left

\* CRC.digest() ... finalize() over bytes.
CRC(bytes) == CrcUpdate(<<0, 0, 0, 0, 0, 0, 0, 0>>, bytes, 1, Len(bytes))

\* ------------------------------------------------------------------ Entry

NoEntry == [none |-> TRUE]

ActiveByte(active) == IF active THEN 1 ELSE 0

\* A faulty calculate_checksum that leaves the key out of the digest.
ChecksumWithoutKey(e) ==
    CRC(<<ActiveByte(e.active)>>
        \o ToLeBytes(e.timestamp, TimestampWidth)
        \o ToLeBytes(e.key_size, SizeWidth)
        \o ToLeBytes(e.value_size, SizeWidth)
        \o e.value)

\* Entry::calculate_checksum: the digest of every field but the checksum, as
\* a 64-bit number (8 bytes, most significant first).
calculate_checksum(e) ==
    CRC(<<ActiveByte(e.active)>>
        \o ToLeBytes(e.timestamp, TimestampWidth)
        \o ToLeBytes(e.key_size, SizeWidth)
        \o ToLeBytes(e.value_size, SizeWidth)
        \o e.key
        \o e.value)

\* Entry::new(key, value), the clock reading timestamp.
EntryNew(key, value, timestamp) ==
    LET new_entry == [checksum |-> Zeros(ChecksumWidth),
                      active |-> TRUE,
                      timestamp |-> timestamp,
                      key_size |-> Len(key),
                      value_size |-> Len(value),
                      key |-> key,
                      value |-> value]
    IN  [new_entry EXCEPT !.checksum = calculate_checksum(new_entry)]

\* Entry::as_bytes: the little-endian byte image of the record.
as_bytes(e) ==
    Reverse(e.checksum)
    \o <<ActiveByte(e.active)>>
    \o ToLeBytes(e.timestamp, TimestampWidth)
    \o ToLeBytes(e.key_size, SizeWidth)
    \o ToLeBytes(e.value_size, SizeWidth)
    \o e.key
    \o e.value

\* A faulty mark_inactive that also drops the value of the record.
MarkInactiveDropValue(e) == [e EXCEPT !.active = FALSE, !.value_size = 0, !.value = <<>>]

\* A faulty mark_inactive that leaves the flag as it is.
KeepActive(e) == e

\* Entry::mark_inactive.
mark_inactive(e) == [e EXCEPT !.active = FALSE]

\* ------------------------------------------------------------------ File

Min(a, b) == IF a < b THEN a ELSE b
Max(a, b) == IF a > b THEN a ELSE b

\* File::read(&mut buf[0..n]) at position pos: the bytes it delivers, fewer
\* than n (possibly none) when the file ends first.
ReadBytes(file, pos, n) ==
    IF pos >= Len(file) THEN <<>> ELSE SubSeq(file, pos + 1, Min(pos + n, Len(file)))

\* buf[0..Len(r)] overwritten by the bytes r that a read delivered.
Overlay(buf, r) ==
    AsSeq([i \in 1..Len(buf) |-> IF i <= Len(r) THEN r[i] ELSE buf[i]])

\* File::write_all(bytes) at position pos (a gap past the end reads as zeros).
WriteAt(file, pos, bytes) ==
    AsSeq([i \in 1..Max(Len(file), pos + Len(bytes)) |->
              IF i > pos /\ i <= pos + Len(bytes) THEN bytes[i - pos]
              ELSE IF i <= Len(file) THEN file[i]
              ELSE 0])

\* The widths of the reads of the header, in the order from_reader makes them.
HeaderWidths == <<ChecksumWidth, ActiveWidth, TimestampWidth, SizeWidth, SizeWidth>>

\* file.read(&mut buf[0..n]) from position pos: the buffer and the position
\* after the read.
ReadInto(file, pos, buf, n) ==
    LET r == ReadBytes(file, pos, n)
    IN  [buf |-> Overlay(buf, r), pos |-> pos + Len(r)]

RECURSIVE Reads(_, _, _, _)
\* file.read(&mut buf[0..n]) for each n of widths in turn, from position pos:
\* the buffer and the position after each read.  The buffer is the one buf of
\* from_reader, so a short read leaves the bytes of the reads before it.
Reads(file, pos, buf, widths) ==
    IF widths = <<>> THEN <<>>
    ELSE CHOOSE rs \in {<<r>> \o Reads(file, r.pos, r.buf, Tail(widths)) :
                           r \in {ReadInto(file, pos, buf, Head(widths))}} : TRUE

\* The result of from_reader when a read fails at position pos (`?`).
FailedRead(pos) == [kind |-> "Err", entry |-> NoEntry, pos |-> pos]

\* The rest of from_reader once the header is read, hd = Reads(...): the
\* numbers are decoded from the buffer, key and value are resized to their
\* sizes (zero filled) and read.  Oversize: a decoded number is beyond what
\* the model represents.
FromHeader(file, hd, failAt) ==
    LET tsb == SubSeq(hd[3].buf, 1, TimestampWidth)
        ksb == SubSeq(hd[4].buf, 1, SizeWidth)
        vsb == SubSeq(hd[5].buf, 1, SizeWidth)
    IN  IF ~Representable(tsb) \/ ~Representable(ksb) \/ ~Representable(vsb)
           \/ FromLeBytes(ksb) > MaxVec \/ FromLeBytes(vsb) > MaxVec
        THEN [kind |-> "Oversize", entry |-> NoEntry, pos |-> hd[5].pos]
        ELSE LET key_size   == FromLeBytes(ksb)
                 value_size == FromLeBytes(vsb)
                 r6 == ReadBytes(file, hd[5].pos, key_size)
                 p6 == hd[5].pos + Len(r6)
                 r7 == ReadBytes(file, p6, value_size)
             IN  IF failAt = 6 THEN FailedRead(hd[5].pos)
                 ELSE IF failAt = 7 THEN FailedRead(p6)
                 ELSE [kind |-> "Ok",
                       entry |-> [checksum |-> Reverse(SubSeq(hd[1].buf, 1, ChecksumWidth)),
                                  active |-> (hd[2].buf[1] = 1),
                                  timestamp |-> FromLeBytes(tsb),
                                  key_size |-> key_size,
                                  value_size |-> value_size,
                                  key |-> Overlay(Zeros(key_size), r6),
                                  value |-> Overlay(Zeros(value_size), r7)],
                       pos |-> p6 + Len(r7)]

\* Entry::from_reader(file) with the file positioned at pos.  failAt is the
\* number (1..7) of the read that fails with an I/O error, 0 for none.  The
\* outcome is Ok with the entry, Err (the failed read, passed on by `?`), or
\* Oversize.
from_reader(file, pos, failAt) ==
    IF failAt = 1 THEN FailedRead(pos)
    ELSE IF failAt \in 2..5
         THEN FailedRead(Reads(file, pos, Zeros(BufLen), HeaderWidths)[failAt - 1].pos)
    ELSE CHOOSE r \in {FromHeader(file, hd, failAt) :
                          hd \in {Reads(file, pos, Zeros(BufLen), HeaderWidths)}} : TRUE

\* ------------------------------------------------------------------ Index

\* A faulty IndexValue::new that drops the offset.
IndexValueAtZero(timestamp, file_id, offset, size) ==
    [timestamp |-> timestamp, file_id |-> file_id, offset |-> 0, size |-> size]

\* A faulty IndexValue::new that takes the offset for the size and the size
\* for the offset.
IndexValueSwapped(timestamp, file_id, offset, size) ==
    [timestamp |-> timestamp, file_id |-> file_id, offset |-> size, size |-> offset]

\* IndexValue::new.
IndexValueNew(timestamp, file_id, offset, size) ==
    [timestamp |-> timestamp, file_id |-> file_id, offset |-> offset, size |-> size]

NoIndexValue == [none |-> TRUE]

\* Index::new: no keys.
IndexNew == <<>>

\* A faulty update that forgets every other key.
UpdateAlone(index, key, value) ==
    [index |-> (key :> value),
     displaced |-> IF key \in DOMAIN index
                   THEN [some |-> TRUE, value |-> index[key]]
                   ELSE [some |-> FALSE, value |-> NoIndexValue]]

\* A faulty update that keeps the value a key already has.
UpdateKeepFirst(index, key, value) ==
    [index |-> index @@ (key :> value),
     displaced |-> IF key \in DOMAIN index
                   THEN [some |-> TRUE, value |-> index[key]]
                   ELSE [some |-> FALSE, value |-> NoIndexValue]]

\* Index::update: the map with key bound to value, and the displaced value
\* (HashMap::insert's Option).
update(index, key, value) ==
    [index |-> (key :> value) @@ index,
     displaced |-> IF key \in DOMAIN index
                   THEN [some |-> TRUE, value |-> index[key]]
                   ELSE [some |-> FALSE, value |-> NoIndexValue]]

\* A faulty lookup that answers a default location for a key it does not hold.
LookupOrDefault(index, key) ==
    IF key \in DOMAIN index
    THEN [kind |-> "Ok", value |-> index[key]]
    ELSE [kind |-> "Ok", value |-> [timestamp |-> 0, file_id |-> 0, offset |-> 0, size |-> 0]]

\* Index::lookup: Ok(value), or Err(IndexKeyNotFoundError(key)).
lookup(index, key) ==
    IF key \in DOMAIN index
    THEN [kind |-> "Ok", value |-> index[key]]
    ELSE [kind |-> "Err", value |-> NoIndexValue]

\* ------------------------------------------------------------------ Writer

\* The locks of a Writer: index, file and offset are each an Arc<Mutex<..>>.
AllLocks == {"index", "file", "offset"}

\* Writer::new: an empty index, the file created and truncated, offset 0.
WriterNew ==
    [index |-> IndexNew, file |-> <<>>, pos |-> 0, offset |-> 0, poisoned |-> {}]

\* The outcome of an operation: kind is "Ok", "Err" (an error value returned
\* to the caller), "Panic" (an unwrap() of an Err: the thread unwinds and the
\* locks it holds are poisoned) or "Oversize" (see from_reader).  found and
\* old record the index lookup the operation made; writes counts the
\* write_all calls that completed; w is the Writer afterwards.
Outcome(kind, err, entry, lk, writes, w) ==
    [kind |-> kind, err |-> err, entry |-> entry,
     found |-> (lk.kind = "Ok"), old |-> lk.value, writes |-> writes, w |-> w]

\* A panic while holding the locks held: they are poisoned.
Panicked(lk, writes, w, held) ==
    Outcome("Panic", "Io", NoEntry, lk, writes,
            [w EXCEPT !.poisoned = w.poisoned \cup held])

\* The end of the branch of Writer::insert for a key the index holds: the
\* seek to the end of the file, stream_position, the index update, the write
\* of the new record and the store to the offset.  writes is the number of
\* write_all calls made before.
AppendAtEnd(w, entry, ts, fail, lk, writes) ==
    LET current_offset == Len(w.file)
        data == as_bytes(entry)
        w1 == [w EXCEPT !.pos = current_offset]
        w2 == [w1 EXCEPT !.index =
                 update(w.index, entry.key,
                        IndexValueNew(ts, 0, current_offset, Len(data))).index]
    IN  IF fail = 11 THEN Panicked(lk, writes, w, {"index", "file"})
        ELSE IF fail = 12 THEN Outcome("Err", "Io", NoEntry, lk, writes, w1)
        ELSE IF fail = 13 THEN Panicked(lk, writes, w2, AllLocks)
        ELSE Outcome("Ok", "None", NoEntry, lk, writes + 1,
               [w2 EXCEPT !.file = WriteAt(w.file, current_offset, data),
                          !.pos = current_offset + Len(data),
                          !.offset = current_offset])

\* A faulty seek back, by the size of the record found and of the new one.
SeekBackTwice(pos, size) == pos - (size + size)

\* file.seek(SeekFrom::Current(-(size))) from position pos: the position
\* sought, an error when it is before the start of the file.
SeekBack(pos, size) == pos - size

\* The middle of that branch, fr the result of from_reader at the old record:
\* mark_inactive, the seek back by the size of the record and the write of
\* the deactivated record.
Deactivate(w, entry, ts, fail, lk, fr) ==
    IF fr.kind # "Ok" THEN Outcome(fr.kind, "Io", NoEntry, lk, 0, [w EXCEPT !.pos = fr.pos])
    ELSE LET found_data == as_bytes(mark_inactive(fr.entry))
             back == SeekBack(fr.pos, Len(found_data))
         IN  IF fail = 9 \/ back < 0
             THEN Outcome("Err", "Io", NoEntry, lk, 0, [w EXCEPT !.pos = fr.pos])
             ELSE IF fail = 10
             THEN Panicked(lk, 0, [w EXCEPT !.pos = back], {"index", "file"})
             ELSE AppendAtEnd([w EXCEPT !.file = WriteAt(w.file, back, found_data),
                                        !.pos = fr.pos],
                              entry, ts, fail, lk, 1)

\* The branch of Writer::insert for a key the index holds, at lk.value.  fail
\* is the number of the I/O call that fails (0 for none): 1 the seek to the
\* old record, 2..8 the reads of from_reader, 9 the seek back, 10 the write of
\* the deactivated record, 11 the seek to the end, 12 stream_position, 13 the
\* write of the new record.
InsertExisting(w, entry, ts, fail, lk) ==
    IF fail = 1 THEN Panicked(lk, 0, w, {"index", "file"})
    ELSE Deactivate(w, entry, ts, fail, lk,
                    from_reader(w.file, lk.value.offset,
                                IF fail \in 2..8 THEN fail - 1 ELSE 0))

\* The branch of Writer::insert for a key the index does not hold.  fail: 1
\* the seek to the offset, 2 the write of the record.
InsertNew(w, entry, ts, fail, lk) ==
    LET current_offset == w.offset
        data == as_bytes(entry)
        w1 == [w EXCEPT !.pos = current_offset,
                        !.index = update(w.index, entry.key,
                                         IndexValueNew(ts, 0, current_offset, Len(data))).index]
    IN  IF fail = 1 THEN Panicked(lk, 0, w, AllLocks)
        ELSE IF fail = 2 THEN Panicked(lk, 0, w1, AllLocks)
        ELSE Outcome("Ok", "None", NoEntry, lk, 1,
               [w1 EXCEPT !.file = WriteAt(w.file, current_offset, data),
                          !.pos = current_offset + Len(data),
                          !.offset = current_offset + Len(data)])

\* An operation called when a lock of the Writer is poisoned: lock().unwrap()
\* panics.
PoisonedLock(w) ==
    Outcome("Panic", "Poisoned", NoEntry, [kind |-> "Err", value |-> NoIndexValue], 0, w)

\* Writer::insert(entry) once the index is looked up.
InsertAt(w, entry, ts, fail, lk) ==
    IF lk.kind = "Ok" THEN InsertExisting(w, entry, ts, fail, lk)
    ELSE InsertNew(w, entry, ts, fail, lk)

\* Writer::insert(entry); ts is the clock reading taken for the IndexValue.
insert(w, entry, ts, fail) ==
    IF w.poisoned # {} THEN PoisonedLock(w)
    ELSE InsertAt(w, entry, ts, fail, lookup(w.index, entry.key))

\* A faulty get that stores the file position in the append cursor.
GetAtMovesCursor(w, lk, fr) ==
    IF fr.kind = "Ok"
    THEN Outcome("Ok", "None", fr.entry, lk, 0, [w EXCEPT !.pos = fr.pos, !.offset = fr.pos])
    ELSE Outcome(fr.kind, "Io", NoEntry, lk, 0, [w EXCEPT !.pos = fr.pos])

\* Writer::get(key) once the index holds the key, fr the result of
\* from_reader at the record.
GetAt(w, lk, fr) ==
    IF fr.kind = "Ok" THEN Outcome("Ok", "None", fr.entry, lk, 0, [w EXCEPT !.pos = fr.pos])
    ELSE Outcome(fr.kind, "Io", NoEntry, lk, 0, [w EXCEPT !.pos = fr.pos])

\* Writer::get(key) once the index is looked up.
GetFound(w, fail, lk) ==
    IF lk.kind = "Err" THEN Outcome("Err", "IndexKeyNotFound", NoEntry, lk, 0, w)
    ELSE IF fail = 1 THEN Panicked(lk, 0, w, {"index", "file"})
    ELSE GetAt(w, lk, from_reader(w.file, lk.value.offset,
                                  IF fail \in 2..8 THEN fail - 1 ELSE 0))

\* Writer::get(key).  fail: 1 the seek to the record, 2..8 the reads of
\* from_reader.
get(w, key, fail) ==
    IF w.poisoned # {} THEN PoisonedLock(w)
    ELSE GetFound(w, fail, lookup(w.index, key))

\* ------------------------------------------------------------------ state

VARIABLES
    index,      \* Writer.index: the keys of the Index and their IndexValue
    file,       \* the bytes of the log file
    pos,        \* the position of the file handle
    offset,     \* Writer.offset, the append cursor
    poisoned,   \* the locks poisoned by a panic
    now,        \* the last reading of util::get_micros_since_epoch
    ret,        \* the last operation called and what it returned
    latest,     \* history: for each key, the value of its last successful insert
    nOps,       \* history: the number of insert (or Index::update) calls so far
    pc,         \* for each thread, the line of Writer::insert or get it is at
    owner,      \* for each lock of the Writer, the thread holding it (0: free)
    local       \* for each thread, the arguments and local variables of its call

vars == <<index, file, pos, offset, poisoned, now, ret, latest, nOps, pc, owner, local>>

\* The threads that share one Writer.
Threads == {1, 2}

\* The variables of the threads.
tvars == <<pc, owner, local>>

\* The arguments and locals of a thread in no call: op is the operation,
\* entry the argument of insert, lk the result of index.lookup, found_entry
\* the record read back, current_offset the local of that name, kind and err
\* the value returned; snap records the Writer as it was when the thread took
\* the file lock.
NoLocal ==
    [op |-> "none", key |-> <<>>, value |-> <<>>, entry |-> NoEntry,
     lk |-> [kind |-> "Err", value |-> NoIndexValue], found_entry |-> NoEntry,
     current_offset |-> 0, kind |-> "Ok", err |-> "None", got |-> NoEntry,
     writes |-> 0, snap |-> WriterNew]

\* No thread has called the Writer and every lock is free.
ThreadsIdle ==
    /\ pc = [t \in Threads |-> "idle"]
    /\ owner = [lk \in AllLocks |-> 0]
    /\ local = [t \in Threads |-> NoLocal]

\* The keys and values the callers pass (byte sequences, the empty one too).
Keys == {<<>>, <<1>>, <<2>>}
Values == {<<>>, <<7>>}

\* The Writer as one record.
W == [index |-> index, file |-> file, pos |-> pos, offset |-> offset,
      poisoned |-> poisoned]

NoRet ==
    [op |-> "new", key |-> <<>>, value |-> <<>>, kind |-> "Ok", err |-> "None",
     entry |-> NoEntry, found |-> FALSE, old |-> NoIndexValue, writes |-> 0]

\* ret after operation op(key, value) with outcome r.
Returned(op, key, value, r) ==
    [op |-> op, key |-> key, value |-> value, kind |-> r.kind, err |-> r.err,
     entry |-> r.entry, found |-> r.found, old |-> r.old, writes |-> r.writes]

\* let writer = Writer::new(path).
Init ==
    /\ index = WriterNew.index
    /\ file = WriterNew.file
    /\ pos = WriterNew.pos
    /\ offset = WriterNew.offset
    /\ poisoned = WriterNew.poisoned
    /\ now = 0
    /\ ret = NoRet
    /\ latest = <<>>
    /\ nOps = 0
    /\ ThreadsIdle

\* writer.insert(Entry::new(key, value)): Entry::new and IndexValue::new read
\* the clock; fail is the I/O call that fails (0: none).
Insert(key, value, fail) ==
    /\ nOps < MaxOps
    /\ \E r \in {insert(W, EntryNew(key, value, now), now, fail)} :
           /\ index' = r.w.index
           /\ file' = r.w.file
           /\ pos' = r.w.pos
           /\ offset' = r.w.offset
           /\ poisoned' = r.w.poisoned
           /\ ret' = Returned("insert", key, value, r)
           /\ latest' = IF r.kind = "Ok" THEN (key :> value) @@ latest ELSE latest
    /\ nOps' = nOps + 1
    /\ UNCHANGED <<now, tvars>>

\* writer.get(key).
Get(key, fail) ==
    /\ \E r \in {get(W, key, fail)} :
           /\ index' = r.w.index
           /\ file' = r.w.file
           /\ pos' = r.w.pos
           /\ offset' = r.w.offset
           /\ poisoned' = r.w.poisoned
           /\ ret' = Returned("get", key, <<>>, r)
    /\ UNCHANGED <<now, latest, nOps, tvars>>

\* Time passes between operations.
Tick ==
    /\ now < MaxClock
    /\ now' = now + 1
    /\ UNCHANGED <<index, file, pos, offset, poisoned, ret, latest, nOps, tvars>>

\* The I/O calls of one operation, by number (insert makes at most 13).
IoCalls == 1..13

InsertOk == \E key \in Keys, value \in Values : Insert(key, value, 0)

GetOk == \E key \in Keys : Get(key, 0)

\* Inserts and gets with no I/O failure.
Next == InsertOk \/ GetOk \/ Tick

Spec == Init /\ [][Next]_vars

InsertIo ==
    \E key \in Keys, value \in Values, fail \in IoCalls \cup {0} :
        nOps < MaxIoOps /\ Insert(key, value, fail)

GetIo == \E key \in Keys, fail \in IoCalls \cup {0} : Get(key, fail)

\* Inserts and gets in which any one I/O call may fail.
NextIo == InsertIo \/ GetIo \/ Tick

SpecIo == Init /\ [][NextIo]_vars

\* ------------------------------------------------------------------ decoding

\* The records a log can hold: those of Entry::new over the keys, values and
\* clock readings, active or deactivated by mark_inactive.
Entries ==
    {IF a THEN EntryNew(k, v, t) ELSE mark_inactive(EntryNew(k, v, t)) :
        k \in Keys, v \in Values, t \in 0..MaxClock, a \in BOOLEAN}

\* What a reader can hold: the encoding of a record, whole or cut short.
Encodings ==
    UNION {{SubSeq(as_bytes(e), 1, n) : n \in 0..Len(as_bytes(e))} : e \in Entries}

\* A reader at position 0 of an encoding.
InitDecode ==
    /\ index = IndexNew
    /\ file \in Encodings
    /\ pos = 0
    /\ offset = 0
    /\ poisoned = {}
    /\ now = 0
    /\ ret = NoRet
    /\ latest = <<>>
    /\ nOps = 0
    /\ ThreadsIdle

\* Entry::from_reader(&mut file), with no I/O failure.
Decode ==
    /\ \E r \in {from_reader(file, pos, 0)} :
           /\ pos' = r.pos
           /\ ret' = [NoRet EXCEPT !.op = "from_reader", !.kind = r.kind,
                                   !.err = IF r.kind = "Ok" THEN "None" ELSE "Io",
                                   !.entry = r.entry]
    /\ UNCHANGED <<index, file, offset, poisoned, now, latest, nOps, tvars>>

NextDecode == Decode

SpecDecode == InitDecode /\ [][NextDecode]_vars

\* ------------------------------------------------------------------ the index alone

\* The locations given to Index::update (the offsets and sizes of the tests
\* index_update and index_lookup).
Locs ==
    {IndexValueNew(t, 0, o, sz) : t \in 0..MaxClock, o \in {5, 10}, sz \in {0, 100}}

\* index.update(key, value).
IndexUpdate(key, value) ==
    /\ nOps < MaxOps
    /\ \E r \in {update(index, key, value)} :
           /\ index' = r.index
           /\ ret' = [NoRet EXCEPT !.op = "update", !.key = key,
                                   !.found = r.displaced.some, !.old = r.displaced.value]
    /\ latest' = (key :> value) @@ latest
    /\ nOps' = nOps + 1
    /\ UNCHANGED <<file, pos, offset, poisoned, now, tvars>>

\* index.lookup(key).
IndexLookup(key) ==
    /\ \E r \in {lookup(index, key)} :
           ret' = [NoRet EXCEPT !.op = "lookup", !.key = key, !.kind = r.kind,
                                !.err = IF r.kind = "Ok" THEN "None" ELSE "IndexKeyNotFound",
                                !.found = (r.kind = "Ok"), !.old = r.value]
    /\ UNCHANGED <<index, file, pos, offset, poisoned, now, latest, nOps, tvars>>

UpdateAny == \E key \in Keys, value \in Locs : IndexUpdate(key, value)

LookupAny == \E key \in Keys : IndexLookup(key)

NextIndex == UpdateAny \/ LookupAny

SpecIndex == Init /\ [][NextIndex]_vars

\* ------------------------------------------------------------------ opening

\* Number of Writer::insert calls explored when the Writer may be created anew.
MaxOpenOps == 2

\* A faulty Writer::new that opens the file without truncating it and starts
\* the cursor at its end.
WriterNewKeepingLog(contents) ==
    [WriterNew EXCEPT !.file = contents, !.offset = Len(contents)]

\* Writer::new(directory) where the file at directory holds contents:
\* OpenOptions .create(true).truncate(true) empties the file, the index is
\* Index::new() and the offset 0, whatever the file held.
WriterNewOver(contents) == [WriterNew EXCEPT !.file = <<>>]

\* let writer = Writer::new(path) once more on the same path (the Writer
\* before it is dropped): a new index, new locks, the file opened anew.
Open ==
    /\ \E w \in {WriterNewOver(file)} :
           /\ index' = w.index
           /\ file' = w.file
           /\ pos' = w.pos
           /\ offset' = w.offset
           /\ poisoned' = w.poisoned
    /\ ret' = NoRet
    /\ UNCHANGED <<now, latest, nOps, tvars>>

InsertOpen ==
    \E key \in Keys, value \in Values : nOps < MaxOpenOps /\ Insert(key, value, 0)

\* Inserts and gets with no I/O failure, the Writer created anew at any time.
NextOpen == Open \/ InsertOpen \/ GetOk \/ Tick

SpecOpen == Init /\ [][NextOpen]_vars

\* ------------------------------------------------------------------ threads

\* Number of Writer::insert calls the threads make between them.
MaxCalls == 2

\* A faulty lock that never waits.
FreeAlways(lk) == TRUE

\* Mutex::lock returns once no thread holds the lock.
Free(lk) == owner[lk] = 0

\* A faulty drop that leaves the lock with the thread that held it.
KeptLocked(t, lk) == owner[lk]

\* The holder of lock lk once thread t has dropped its guard of it.
Released(t, lk) == IF owner[lk] = t THEN 0 ELSE owner[lk]

At(t, line) == pc[t] = line

Goto(t, line) == pc' = [pc EXCEPT ![t] = line]

\* The IndexValue of the record entry written at offset o.
NewLocation(entry, o) == IndexValueNew(now, 0, o, Len(as_bytes(entry)))

\* A thread calls writer.insert(Entry::new(key, value)).
CallInsert(t, key, value) ==
    /\ At(t, "idle")
    /\ nOps < MaxCalls
    /\ local' = [local EXCEPT ![t] = [NoLocal EXCEPT !.op = "insert", !.key = key,
                                                      !.value = value,
                                                      !.entry = EntryNew(key, value, now)]]
    /\ nOps' = nOps + 1
    /\ Goto(t, "lock_index")
    /\ UNCHANGED <<index, file, pos, offset, poisoned, now, ret, latest, owner>>

\* A thread calls writer.get(key).
CallGet(t, key) ==
    /\ At(t, "idle")
    /\ local' = [local EXCEPT ![t] = [NoLocal EXCEPT !.op = "get", !.key = key]]
    /\ Goto(t, "lock_index")
    /\ UNCHANGED <<index, file, pos, offset, poisoned, now, ret, latest, nOps, owner>>

\* self.index.lock().unwrap(), the first statement of insert and of get.
LockIndex(t) ==
    /\ At(t, "lock_index")
    /\ Free("index")
    /\ owner' = [owner EXCEPT !["index"] = t]
    /\ Goto(t, "lock_file")
    /\ UNCHANGED <<index, file, pos, offset, poisoned, now, ret, latest, nOps, local>>

\* self.file.lock().unwrap(), the second statement of insert and of get.
LockFile(t) ==
    /\ At(t, "lock_file")
    /\ Free("file")
    /\ owner' = [owner EXCEPT !["file"] = t]
    /\ local' = [local EXCEPT ![t].snap = W]
    /\ Goto(t, "lookup")
    /\ UNCHANGED <<index, file, pos, offset, poisoned, now, ret, latest, nOps>>

\* The line a call goes to with the result lk of index.lookup: the two arms
\* of the match of insert; get returns the error with `?`.
AfterLookup(op, lk) ==
    IF op = "insert"
    THEN (IF lk.kind = "Ok" THEN "seek_found" ELSE "lock_offset_new")
    ELSE (IF lk.kind = "Ok" THEN "get_seek" ELSE "return")

\* index.lookup(key) of insert and of get.
Lookup(t) ==
    /\ At(t, "lookup")
    /\ \E lk \in {lookup(index, local[t].key)} :
           /\ local' = [local EXCEPT ![t].lk = lk,
                                     ![t].kind = IF local[t].op = "get" THEN lk.kind ELSE "Ok",
                                     ![t].err = IF local[t].op = "get" /\ lk.kind = "Err"
                                                THEN "IndexKeyNotFound" ELSE "None"]
           /\ Goto(t, AfterLookup(local[t].op, lk))
    /\ UNCHANGED <<index, file, pos, offset, poisoned, now, ret, latest, nOps, owner>>

\* file.seek(SeekFrom::Start(value.offset)): insert of a key the index holds
\* (from "seek_found") and get (from "get_seek").
SeekRecord(t, from, to) ==
    /\ At(t, from)
    /\ pos' = local[t].lk.value.offset
    /\ Goto(t, to)
    /\ UNCHANGED <<index, file, offset, poisoned, now, ret, latest, nOps, owner, local>>

SeekFound(t) == SeekRecord(t, "seek_found", "read_found")

GetSeek(t) == SeekRecord(t, "get_seek", "get_read")

\* Entry::from_reader(&mut file)? and found_entry.mark_inactive().
ReadFound(t) ==
    /\ At(t, "read_found")
    /\ \E fr \in {from_reader(file, pos, 0)} :
           /\ pos' = fr.pos
           /\ IF fr.kind = "Ok"
              THEN /\ local' = [local EXCEPT ![t].found_entry = mark_inactive(fr.entry)]
                   /\ Goto(t, "seek_back")
              ELSE /\ local' = [local EXCEPT ![t].kind = fr.kind, ![t].err = "Io"]
                   /\ Goto(t, "return")
    /\ UNCHANGED <<index, file, offset, poisoned, now, ret, latest, nOps, owner>>

\* file.seek(SeekFrom::Current(-found_data_size))?.
SeekBackFound(t) ==
    /\ At(t, "seek_back")
    /\ \E back \in {SeekBack(pos, Len(as_bytes(local[t].found_entry)))} :
           IF back < 0
           THEN /\ local' = [local EXCEPT ![t].kind = "Err", ![t].err = "Io"]
                /\ Goto(t, "return")
                /\ UNCHANGED pos
           ELSE /\ pos' = back
                /\ Goto(t, "write_found")
                /\ UNCHANGED local
    /\ UNCHANGED <<index, file, offset, poisoned, now, ret, latest, nOps, owner>>

\* file.write_all(bytes) at the file position.
WriteAll(t, bytes, from, to) ==
    /\ At(t, from)
    /\ \E data \in {bytes} :
           /\ file' = WriteAt(file, pos, data)
           /\ pos' = pos + Len(data)
    /\ local' = [local EXCEPT ![t].writes = @ + 1]
    /\ Goto(t, to)
    /\ UNCHANGED <<index, offset, poisoned, now, ret, latest, nOps, owner>>

\* file.write_all(&found_entry.as_bytes()).
WriteFound(t) == WriteAll(t, as_bytes(local[t].found_entry), "write_found", "seek_end")

\* file.seek(SeekFrom::End(0)).
SeekEnd(t) ==
    /\ At(t, "seek_end")
    /\ pos' = Len(file)
    /\ Goto(t, "lock_offset")
    /\ UNCHANGED <<index, file, offset, poisoned, now, ret, latest, nOps, owner, local>>

\* self.offset.lock().unwrap() in either arm of insert.
LockCursor(t, from, to) ==
    /\ At(t, from)
    /\ Free("offset")
    /\ owner' = [owner EXCEPT !["offset"] = t]
    /\ Goto(t, to)
    /\ UNCHANGED <<index, file, pos, offset, poisoned, now, ret, latest, nOps, local>>

LockOffset(t) == LockCursor(t, "lock_offset", "stream_position")

LockOffsetNew(t) == LockCursor(t, "lock_offset_new", "seek_offset")

\* let current_offset = file.stream_position()?.
StreamPosition(t) ==
    /\ At(t, "stream_position")
    /\ local' = [local EXCEPT ![t].current_offset = pos]
    /\ Goto(t, "update_found")
    /\ UNCHANGED <<index, file, pos, offset, poisoned, now, ret, latest, nOps, owner>>

\* index.update(entry.key, IndexValue::new(.., 0, o, data.len())).
UpdateIndex(t, o, from, to) ==
    /\ At(t, from)
    /\ index' = update(index, local[t].key, NewLocation(local[t].entry, o)).index
    /\ Goto(t, to)
    /\ UNCHANGED <<file, pos, offset, poisoned, now, ret, latest, nOps, owner, local>>

UpdateFound(t) == UpdateIndex(t, local[t].current_offset, "update_found", "append_found")

\* file.write_all(&data) of the new record.
AppendFound(t) == WriteAll(t, as_bytes(local[t].entry), "append_found", "set_offset")

\* The store to the cursor that ends an arm of insert; the guard of the
\* offset lock is dropped where the arm ends.
StoreOffset(t, o, from) ==
    /\ At(t, from)
    /\ offset' = o
    /\ owner' = [owner EXCEPT !["offset"] = Released(t, "offset")]
    /\ Goto(t, "return")
    /\ UNCHANGED <<index, file, pos, poisoned, now, ret, latest, nOps, local>>

\* *offset = current_offset.
SetOffset(t) == StoreOffset(t, local[t].current_offset, "set_offset")

\* file.seek(SeekFrom::Start(*current_offset)).
SeekOffset(t) ==
    /\ At(t, "seek_offset")
    /\ pos' = offset
    /\ Goto(t, "update_new")
    /\ UNCHANGED <<index, file, offset, poisoned, now, ret, latest, nOps, owner, local>>

UpdateNew(t) == UpdateIndex(t, offset, "update_new", "append_new")

AppendNew(t) == WriteAll(t, as_bytes(local[t].entry), "append_new", "add_offset")

\* *current_offset += data.len().
AddOffset(t) == StoreOffset(t, offset + Len(as_bytes(local[t].entry)), "add_offset")

\* Entry::from_reader(&mut file)? of get.
GetRead(t) ==
    /\ At(t, "get_read")
    /\ \E fr \in {from_reader(file, pos, 0)} :
           /\ pos' = fr.pos
           /\ local' = [local EXCEPT ![t].kind = fr.kind,
                                     ![t].err = IF fr.kind = "Ok" THEN "None" ELSE "Io",
                                     ![t].got = fr.entry]
    /\ Goto(t, "return")
    /\ UNCHANGED <<index, file, offset, poisoned, now, ret, latest, nOps, owner>>

\* What the call of thread t returns, as ret records it.
ReturnedBy(l) ==
    [op |-> l.op, key |-> l.key, value |-> l.value, kind |-> l.kind, err |-> l.err,
     entry |-> l.got, found |-> (l.lk.kind = "Ok"), old |-> l.lk.value,
     writes |-> l.writes]

\* The call returns: the guards of the file lock and of the index lock are
\* dropped.
Return(t) ==
    /\ At(t, "return")
    /\ owner' = [lk \in AllLocks |-> Released(t, lk)]
    /\ ret' = ReturnedBy(local[t])
    /\ latest' = IF local[t].op = "insert" /\ local[t].kind = "Ok"
                 THEN (local[t].key :> local[t].value) @@ latest
                 ELSE latest
    /\ local' = [local EXCEPT ![t] = NoLocal]
    /\ Goto(t, "idle")
    /\ UNCHANGED <<index, file, pos, offset, poisoned, now, nOps>>

\* A thread takes a lock.
Acquire(t) == LockIndex(t) \/ LockFile(t) \/ LockOffset(t) \/ LockOffsetNew(t)

\* A thread holding the index lock and the file lock runs a line of insert.
RunInsert(t) ==
    \/ SeekFound(t) \/ ReadFound(t) \/ SeekBackFound(t) \/ WriteFound(t) \/ SeekEnd(t)
    \/ StreamPosition(t) \/ UpdateFound(t) \/ AppendFound(t) \/ SetOffset(t)
    \/ SeekOffset(t) \/ UpdateNew(t) \/ AppendNew(t) \/ AddOffset(t)

\* A thread in a call runs a line that takes no lock.
Run(t) == Lookup(t) \/ RunInsert(t) \/ GetSeek(t) \/ GetRead(t) \/ Return(t)

\* The keys and values the threads pass.
ThreadKeys == {<<1>>, <<2>>}
ThreadValues == {<<7>>}

\* A thread calls the Writer.
Call(t) ==
    \/ \E key \in ThreadKeys, value \in ThreadValues : CallInsert(t, key, value)
    \/ \E key \in ThreadKeys : CallGet(t, key)

\* The threads run insert and get line by line, in any interleaving, with no
\* I/O failure and the clock standing still.
NextThreads == \E t \in Threads : Call(t) \/ Acquire(t) \/ Run(t)

SpecThreads == Init /\ [][NextThreads]_vars

\* Every thread in a call gets to run, and a thread that can take a lock
\* again and again does take it.
SpecThreadsFair ==
    /\ SpecThreads
    /\ \A t \in Threads : WF_vars(Run(t)) /\ SF_vars(Acquire(t))

\* ------------------------------------------------------------------ properties

\* C1: after any sequence of inserts, get(k) of a key k that was inserted
\* returns a record whose key is k and whose value is the value of the most
\* recent insert of k.
C1_GetReturnsLatest ==
    (ret.op = "get" /\ ret.key \in DOMAIN latest)
        => (ret.kind = "Ok" /\ ret.entry.key = ret.key
            /\ ret.entry.value = latest[ret.key])

\* C2: a get(key) that follows an insert(key, value) returns a record with
\* that value and the active flag set, whether the key was new or present.
C2_WriteThenRead ==
    [][(ret.op = "insert" /\ ret.kind = "Ok" /\ ret'.op = "get" /\ ret'.key = ret.key)
        => (ret'.kind = "Ok" /\ ret'.entry.value = ret.value /\ ret'.entry.active)]_vars

\* A get has returned the value <<7>> of a key inserted at least twice, the
\* only key of the index.
C2_Witness ==
    /\ ret.op = "get" /\ ret.kind = "Ok"
    /\ ret.entry.value = <<7>> /\ ret.entry.active
    /\ nOps >= 2 /\ Cardinality(DOMAIN index) = 1 /\ DOMAIN latest = DOMAIN index
    /\ ret.old.offset > 0

\* C3: after insert(k, v2) of a key the index held at location L, the record
\* read from the log at L.offset is inactive and get(k) returns v2.
C3_SupersedeTombstones ==
    (ret.op = "insert" /\ ret.kind = "Ok" /\ ret.found)
        => /\ from_reader(file, ret.old.offset, 0).kind = "Ok"
           /\ ~from_reader(file, ret.old.offset, 0).entry.active
           /\ get(W, ret.key, 0).kind = "Ok"
           /\ get(W, ret.key, 0).entry.value = ret.value

\* An insert has superseded a record that is not the first of the log, by
\* another value.
C3_Witness ==
    /\ ret.op = "insert" /\ ret.kind = "Ok" /\ ret.found
    /\ ret.old.offset > 0
    /\ from_reader(file, ret.old.offset, 0).entry.value # ret.value

\* C4: the log is append-only: an insert never shortens it, changes no byte
\* written before but the active flag (and the checksum) of the record it
\* deactivates, and writes the new record at or beyond the previous end.
C4_AppendOnly ==
    [][(ret'.op = "insert" /\ nOps' = nOps + 1)
        => /\ Len(file') >= Len(file)
           /\ \A i \in 1..Len(file) :
                  file'[i] # file[i]
                      => /\ ret'.found
                         /\ i > ret'.old.offset
                         /\ i <= ret'.old.offset + ChecksumWidth + ActiveWidth
           /\ ret'.kind = "Ok" => index'[ret'.key].offset >= Len(file)]_vars

\* C5: get(k) of a key never inserted fails with the key-not-found error and
\* leaves the file position, the log, the index and the cursor as they were.
C5_MissingKey ==
    [][(ret'.op = "get" /\ ret'.key \notin DOMAIN latest)
        => /\ ret'.kind = "Err" /\ ret'.err = "IndexKeyNotFound"
           /\ UNCHANGED <<pos, file, index, offset>>]_vars

\* A get of a key never inserted has failed, with records in the log and the
\* file position away from the start.
C5_Witness ==
    /\ ret.op = "get" /\ ret.err = "IndexKeyNotFound"
    /\ ret.key \notin DOMAIN latest
    /\ DOMAIN index # {} /\ pos > 0

\* C6: with no I/O failure every insert returns Ok, for a new key and for a
\* key it supersedes, empty keys and values included.
C6_InsertOk == (ret.op = "insert") => (ret.kind = "Ok")

\* An insert of the empty key and value has superseded a record, after two
\* inserts, with another key in the index.
C6_Witness ==
    /\ ret.op = "insert" /\ ret.kind = "Ok" /\ ret.found
    /\ ret.key = <<>> /\ ret.value = <<>>
    /\ nOps >= 3 /\ Cardinality(DOMAIN index) >= 2

\* C7: get, whether it succeeds or fails, leaves the index, the log and the
\* append cursor as they were.
C7_GetReadOnly ==
    [][(ret'.op = "get") => UNCHANGED <<index, file, offset>>]_vars

\* A get has read a record that is not the last one written: the file
\* position is away from the cursor and from the end.
C7_Witness ==
    /\ ret.op = "get" /\ ret.kind = "Ok"
    /\ Cardinality(DOMAIN index) >= 2
    /\ pos # offset /\ pos # Len(file)

\* The bytes from_reader needs at position p of the bytes f: the header, and
\* the key and the value of the sizes the header declares when it is there.
Declared(f, p) ==
    IF Len(f) - p < HeaderLen THEN HeaderLen
    ELSE HeaderLen
         + FromLeBytes(SubSeq(f, p + HeaderLen - (2 * SizeWidth) + 1, p + HeaderLen - SizeWidth))
         + FromLeBytes(SubSeq(f, p + HeaderLen - SizeWidth + 1, p + HeaderLen))

\* C8: from_reader returns no record when fewer bytes are left at the
\* reader's position than the header and the sizes it declares.
C8_TruncatedFails ==
    [][(ret'.op = "from_reader" /\ Len(file) - pos < Declared(file, pos))
        => ret'.kind # "Ok"]_vars

\* C9: an I/O failure in insert or get is returned as an error value; the
\* operation does not panic.
C9_IoFailureReturned ==
    (ret.op \in {"insert", "get"} /\ ret.err = "Io") => (ret.kind = "Err")

\* C10: lookup fails for a key never updated and returns the last location
\* given for a key otherwise; update returns the location it displaces, none
\* for a new key, and changes the mapping of no other key.
C10_IndexSemantics ==
    [][/\ (ret'.op = "lookup")
           => IF ret'.key \in DOMAIN latest'
              THEN ret'.kind = "Ok" /\ ret'.old = latest'[ret'.key]
              ELSE ret'.kind = "Err" /\ ret'.err = "IndexKeyNotFound"
       /\ (ret'.op = "update" /\ nOps' = nOps + 1)
           => /\ ret'.found = (ret'.key \in DOMAIN latest)
              /\ ret'.found => ret'.old = latest[ret'.key]
              /\ lookup(index', ret'.key) = [kind |-> "Ok", value |-> latest'[ret'.key]]
              /\ \A k \in Keys \ {ret'.key} : lookup(index', k) = lookup(index, k)]_vars

\* An update has displaced a location by another one, with another key in
\* the index.
C10_Witness ==
    /\ ret.op = "update" /\ ret.found
    /\ ret.old # index[ret.key]
    /\ Cardinality(DOMAIN index) >= 2

\* C11: from_reader on the bytes as_bytes produces for a record, active or
\* not, returns a record with the same checksum, active, timestamp, key_size,
\* value_size, key and value, and consumes exactly those bytes.
C11_RoundTrip ==
    [][(ret'.op = "from_reader" /\ pos = 0)
        => \A e \in Entries :
               (file = as_bytes(e))
                   => (ret'.kind = "Ok" /\ ret'.entry = e /\ pos' = Len(as_bytes(e)))]_vars

\* An inactive record with a key and a value has been decoded from its whole
\* encoding.
C11_Witness ==
    /\ ret.op = "from_reader" /\ ret.kind = "Ok"
    /\ ~ret.entry.active /\ ret.entry.key = <<1>> /\ ret.entry.value = <<7>>
    /\ file = as_bytes(ret.entry) /\ pos = Len(file)

\* ------------------------------------------------------------------ checksums

\* The values of the records given to calculate_checksum: those of Values and
\* two values of nine bytes, the second the generator polynomial of
\* CRC_64_ECMA_182 (0x1_42F0E1EBA9EA3693).
ChecksumValues ==
    Values \cup {<<0, 0, 0, 0, 0, 0, 0, 0, 0>>, <<1, 66, 240, 225, 235, 169, 234, 54, 147>>}

\* The records given to calculate_checksum, their checksum field not yet set.
ChecksumEntries ==
    {[checksum |-> Zeros(ChecksumWidth), active |-> a, timestamp |-> t,
      key_size |-> Len(k), value_size |-> Len(v), key |-> k, value |-> v] :
        k \in Keys, v \in ChecksumValues, t \in 0..MaxClock, a \in BOOLEAN}

\* entry.checksum = entry.calculate_checksum(), for a first and then a second
\* record; latest holds the records so far, with their checksums.
Checksum(e) ==
    /\ Len(latest) < 2
    /\ \E c \in {calculate_checksum(e)} :
           /\ ret' = [NoRet EXCEPT !.op = "calculate_checksum",
                                   !.entry = [e EXCEPT !.checksum = c]]
           /\ latest' = Append(latest, [e EXCEPT !.checksum = c])
    /\ UNCHANGED <<index, file, pos, offset, poisoned, now, nOps, tvars>>

NextChecksum == \E e \in ChecksumEntries : Checksum(e)

SpecChecksum == Init /\ [][NextChecksum]_vars

\* The bytes of record e that its checksum covers, in the order of the spec:
\* active, timestamp, key_size, value_size, key, value.
Digested(e) ==
    <<ActiveByte(e.active)>>
    \o ToLeBytes(e.timestamp, TimestampWidth)
    \o ToLeBytes(e.key_size, SizeWidth)
    \o ToLeBytes(e.value_size, SizeWidth)
    \o e.key
    \o e.value

\* The positions at which the byte sequences a and b of one length differ.
DiffAt(a, b) == {i \in 1..Len(a) : a[i] # b[i]}

\* a and b have one length and differ, within ChecksumWidth consecutive bytes.
BurstApart(a, b) ==
    /\ Len(a) = Len(b)
    /\ DiffAt(a, b) # {}
    /\ \A i, j \in DiffAt(a, b) : j - i < ChecksumWidth

\* C12 as stated: two records that differ in a digested field have different
\* checksums.
C12_ChecksumSensitive ==
    (Len(latest) = 2 /\ Digested(latest[1]) # Digested(latest[2]))
        => latest[1].checksum # latest[2].checksum

\* C12, amended: two records whose digested bytes have the same length and
\* differ only within 8 consecutive bytes have different checksums.
C12_BurstSensitive ==
    (Len(latest) = 2 /\ BurstApart(Digested(latest[1]), Digested(latest[2])))
        => latest[1].checksum # latest[2].checksum

\* The checksums of two records that differ in their keys alone have been
\* computed.
C12_Witness ==
    /\ Len(latest) = 2
    /\ latest[1].key = <<1>> /\ latest[2].key = <<2>>
    /\ latest[1].value = latest[2].value /\ latest[1].active = latest[2].active
    /\ latest[1].timestamp = latest[2].timestamp
    /\ BurstApart(Digested(latest[1]), Digested(latest[2]))

\* C13: between operations the append cursor is the end of the log: after an
\* insert it is past the record just appended, in both branches.
C13_CursorAtEnd ==
    /\ offset = Len(file)
    /\ (ret.op = "insert" /\ ret.kind = "Ok")
           => offset = index[ret.key].offset + index[ret.key].size

\* C14: between operations the record in the log at the offset the index
\* holds for a key has that key and is active; no two keys are indexed at one
\* offset.
C14_IndexedRecordIsLive ==
    /\ \A k \in DOMAIN index :
           /\ from_reader(file, index[k].offset, 0).kind = "Ok"
           /\ from_reader(file, index[k].offset, 0).entry.key = k
           /\ from_reader(file, index[k].offset, 0).entry.active
    /\ \A j, k \in DOMAIN index : (j # k) => (index[j].offset # index[k].offset)

\* C15: after insert(k, v) returns Ok the index maps k to the location of the
\* new record: the offset at which its first byte was written, its encoded
\* length as the size, and file_id 0.
C15_IndexedWhereWritten ==
    [][(ret'.op = "insert" /\ nOps' = nOps + 1 /\ ret'.kind = "Ok")
        => /\ index'[ret'.key].file_id = 0
           /\ index'[ret'.key].size = HeaderLen + Len(ret'.key) + Len(ret'.value)
           /\ pos' = index'[ret'.key].offset + index'[ret'.key].size
           /\ SubSeq(file', index'[ret'.key].offset + ChecksumWidth + 1, pos')
                  = Digested([active |-> TRUE, timestamp |-> now,
                              key_size |-> Len(ret'.key), value_size |-> Len(ret'.value),
                              key |-> ret'.key, value |-> ret'.value])]_vars

\* An insert has superseded a record and indexed the new record, of a key
\* and a value of one byte, after the start of the log.
C15_Witness ==
    /\ ret.op = "insert" /\ ret.kind = "Ok" /\ ret.found
    /\ index[ret.key].offset > 0
    /\ index[ret.key].size = HeaderLen + 2
    /\ pos = index[ret.key].offset + index[ret.key].size

\* C16: the rewrite of a superseded record is in place and keeps its length:
\* mark_inactive changes the active field alone, the record encodes to as
\* many bytes as before, it is written at the offset the index held, and of
\* the bytes the log had only the active byte of that record differs.
C16_TombstoneInPlace ==
    [][(ret'.op = "insert" /\ nOps' = nOps + 1 /\ ret'.kind = "Ok" /\ ret'.found)
        => \A found \in {from_reader(file, ret'.old.offset, 0)} :
               /\ found.kind = "Ok"
               /\ mark_inactive(found.entry) = [found.entry EXCEPT !.active = FALSE]
               /\ \A data \in {as_bytes(mark_inactive(found.entry))} :
                      /\ Len(data) = found.pos - ret'.old.offset
                      /\ SubSeq(file', ret'.old.offset + 1, found.pos) = data
               /\ \A i \in 1..Len(file) :
                      (file'[i] # file[i])
                          => (i = ret'.old.offset + ChecksumWidth + ActiveWidth)]_vars

\* An insert has deactivated a record with a key and a value of one byte that
\* was not the last of the log.
C16_Witness ==
    /\ ret.op = "insert" /\ ret.kind = "Ok" /\ ret.found
    /\ ret.old.size = HeaderLen + 2
    /\ ret.old.offset + ret.old.size < index[ret.key].offset
    /\ ~from_reader(file, ret.old.offset, 0).entry.active
    /\ from_reader(file, ret.old.offset, 0).entry.value = <<7>>

\* The records met when the log is decoded front to back from position p.
RECURSIVE StoredRecords(_, _)
StoredRecords(f, p) ==
    IF p >= Len(f)
    THEN <<>>
    ELSE LET r == from_reader(f, p, 0)
         IN  IF r.kind = "Ok" THEN <<r.entry>> \o StoredRecords(f, r.pos) ELSE <<>>

\* C17: in every reachable state every record stored in the log, live or
\* tombstoned, carries the checksum of its own stored fields: recomputing the
\* checksum of any record decoded from the log gives the stored checksum.
C17_StoredChecksumsMatch ==
    \A i \in 1..Len(StoredRecords(file, 0)) :
        calculate_checksum(StoredRecords(file, 0)[i]) = StoredRecords(file, 0)[i].checksum

\* Thread t is in insert and holds the index lock and the file lock.
InsertHolds(t) ==
    local[t].op = "insert" /\ owner["index"] = t /\ owner["file"] = t

\* The lines at which a thread reads or writes nothing of the Writer.
Outside == {"idle", "lock_index"}

\* C18: with several threads issuing insert and get against one Writer, from
\* the moment an insert holds its locks until it returns no other insert or
\* get is at a line that reads or writes the index, the file or the cursor,
\* no step of another thread changes them, and what the insert has done when
\* it returns is what Writer::insert does in one piece to the Writer it
\* found when it took the locks.
C18_Serialized ==
    [][\A t \in Threads :
          InsertHolds(t)
              => /\ \A u \in Threads \ {t} : pc[u] \in Outside /\ pc'[u] \in Outside
                 /\ (pc'[t] = pc[t]) => UNCHANGED <<index, file, pos, offset>>
                 /\ (pc'[t] = "idle")
                        => LET r == insert(local[t].snap, local[t].entry, now, 0)
                           IN  /\ <<index', file', pos', offset'>>
                                      = <<r.w.index, r.w.file, r.w.pos, r.w.offset>>
                               /\ ret'.kind = r.kind
                               /\ ret'.writes = r.writes]_vars

\* An insert stands between its tombstone rewrite and its append while a get
\* of the same key by another thread waits for the index lock.
C18_Witness ==
    \E t, u \in Threads :
        /\ InsertHolds(t) /\ pc[t] = "update_found" /\ local[t].writes = 1
        /\ local[u].op = "get" /\ local[u].key = local[t].key /\ pc[u] = "lock_index"

C20_OneMutation ==
    [][(ret'.op = "insert" /\ nOps' = nOps + 1 /\ ret'.kind = "Ok")
        => /\ DOMAIN index' = DOMAIN index \cup {ret'.key}
           /\ \A k \in DOMAIN index : (k # ret'.key) => (index'[k] = index[k])
           /\ index'[ret'.key] = IndexValueNew(now, 0, index'[ret'.key].offset,
                                               HeaderLen + Len(ret'.key) + Len(ret'.value))
           /\ ret'.found = (ret'.key \in DOMAIN index)
           /\ ret'.writes = IF ret'.key \in DOMAIN index THEN 2 ELSE 1]_vars

\* An insert of a key the index held, while it held another key too, has made
\* two writes.
C20_Witness ==
    /\ ret.op = "insert" /\ ret.kind = "Ok" /\ ret.found /\ ret.writes = 2
    /\ \E k \in DOMAIN index : k # ret.key

\* C21: within one insert the index is made to point at the new offset only
\* once the new record is written to the log: whenever an insert has changed
\* the index, the log holds the new record at the location the index gives,
\* so an insert whose append write fails leaves the index as it was.
C21_IndexAfterWrite ==
    [][(ret'.op = "insert" /\ nOps' = nOps + 1 /\ index' # index)
        => /\ Len(file') >= index'[ret'.key].offset + index'[ret'.key].size
           /\ SubSeq(file', index'[ret'.key].offset + ChecksumWidth + 1,
                     index'[ret'.key].offset + index'[ret'.key].size)
                  = Digested([active |-> TRUE, timestamp |-> now,
                              key_size |-> Len(ret'.key), value_size |-> Len(ret'.value),
                              key |-> ret'.key, value |-> ret'.value])]_vars

\* The Writer as Writer::new leaves it: nothing in the index, the cursor at 0
\* and the log empty.  An insert appends to the log, so the Writer is in this
\* state exactly until its first insert.
Fresh == index = IndexNew /\ offset = 0 /\ file = <<>>

\* C22: a newly created Writer has an empty index and a cursor of 0 and
\* replays nothing of the log the file held; until the first insert every
\* get(k) fails with key-not-found, and the first insert writes its record at
\* offset 0.
C22_StartsEmpty ==
    [][/\ (ret'.op = "new") => Fresh'
       /\ (Fresh /\ ret'.op = "get")
              => (ret'.kind = "Err" /\ ret'.err = "IndexKeyNotFound" /\ Fresh')
       /\ (Fresh /\ nOps' = nOps) => Fresh'
       /\ (Fresh /\ nOps' = nOps + 1)
              => /\ ret'.op = "insert" /\ ret'.kind = "Ok"
                 /\ index'[ret'.key].offset = 0
                 /\ SubSeq(file', ChecksumWidth + 1, Len(file'))
                        = Digested([active |-> TRUE, timestamp |-> now,
                                    key_size |-> Len(ret'.key),
                                    value_size |-> Len(ret'.value),
                                    key |-> ret'.key, value |-> ret'.value])]_vars

\* A get of a key inserted before the Writer was created anew has failed with
\* key-not-found.
C22_Witness ==
    /\ Fresh
    /\ ret.op = "get" /\ ret.key \in DOMAIN latest
    /\ ret.kind = "Err" /\ ret.err = "IndexKeyNotFound"
    /\ nOps > 0

====
